---- MODULE Spec2Model ----
(***************************************************************************)
(* A model of the rademacher-prod numeric engine: the branch-and-bound     *)
(* search of prover.rs over rational-interval sequences, the Extrema /     *)
(* Results accumulator of extrema.rs, the Bounder lookups of prawitz.rs    *)
(* and the CSV persistence of file_io.rs.                                  *)
(*                                                                         *)
(* Numbers.  The program computes with f64.  The model computes with exact *)
(* rationals [n |-> numerator, d |-> denominator] (d > 0), and with        *)
(* "surds" r / sqrt(v) where the program divides by a square root.  A      *)
(* comparison in the model is the comparison of the exact real values;     *)
(* f64 rounding is not modelled.  Source indices are 0-based and are kept  *)
(* 0-based in the operators' parameters; TLA+ sequences are 1-based, so an *)
(* access is written s[i + 1].                                             *)
(***************************************************************************)
EXTENDS Integers, Sequences, FiniteSets, TLC

VARIABLES
    case,          \* the Case being run (immutable after Init)
    bounder,       \* the Bounder handed to simulate / written to the file
    seq,           \* the working Seq of simulate
    results,       \* the Results accumulator
    stack,         \* one frame per active for-loop: [next, max]
    pc,            \* position of the running operation
    verdict,       \* per hypothesis: was it reported proved
    lastIncluded,  \* the last sequence handed to an include_seq, with its depth
    nIncluded,     \* how many sequences were handed to Results.include_seq
    repeated,      \* the last include_seq repeated the one before it
    file,          \* bounder.csv: the characters written
    loaded,        \* the Bounder returned by bounder_from_file
    stdin,         \* the line main read from stdin
    printed,       \* what the last command of main printed
    ivSelf,        \* the Interval intersect_inplace mutates
    ivOther,       \* its argument
    ivOld,         \* the Interval before the call
    sweep,         \* Bounder::new: the (i, y, a) of the next cell to refine
    candidate,     \* Bounder::new: the bound computed for the last cell
    seed,          \* Bounder::new: the table before the refinement
    entered,       \* the Seq at the entry of each simulate_rec call that has not returned
    hintList,      \* satisfies_restrictions, the hints it is given
    fixedSeq,      \* satisfies_restrictions, the Seq whose first fixedDepth numerators are fixed
    fixedDepth,    \* satisfies_restrictions, the depth of the first test
    laterDepth     \* satisfies_restrictions, the depth of the later test

vars == <<case, bounder, seq, results, stack, pc, verdict,
          lastIncluded, nIncluded, repeated, file, loaded, stdin, printed,
          ivSelf, ivOther, ivOld,
          sweep, candidate, seed,
          entered,
          hintList, fixedSeq, fixedDepth, laterDepth>>

----------------------------------------------------------------------------
(* Bounds of the model. *)

MaxDenom == 4
MaxDepth == 2
\* Cases are kept to denominator * max_depth <= MaxSize.
MaxSize == 8
\* The Extrema exercised alone have denominator <= MaxExtDenom and
\* denominator * max_depth <= MaxExtSize.
MaxExtDenom == 3
MaxExtSize == 6
\* The tables written to the file have <= MaxRows rows of <= MaxCols values
\* and <= MaxCells values in all.
MaxRows == 2
MaxCols == 2
MaxCells == 4
\* Bounder::new is run with N <= MaxGran and MaxSweeps refinement sweeps.
MaxGran == 3
MaxSweeps == 2
\* satisfies_restrictions is tried on Seqs of MaxHintLen slots with
\* numerators up to MaxNumerator.
MaxHintLen == 3
MaxNumerator == 2

----------------------------------------------------------------------------
(* Exact rationals. *)

Rat(n, d) == [n |-> n, d |-> d]

RLt(a, b) == a.n * b.d < b.n * a.d
RLe(a, b) == a.n * b.d <= b.n * a.d
RGt(a, b) == RLt(b, a)
RGe(a, b) == RLe(b, a)

RECURSIVE GCD(_, _)
GCD(a, b) == IF b = 0 THEN a ELSE GCD(b, a % b)

Abs(x) == IF x < 0 THEN -x ELSE x

RNorm(n, d) ==
    LET g == GCD(Abs(n), d) IN Rat(n \div g, d \div g)

RAdd(a, b) == RNorm(a.n * b.d + b.n * a.d, a.d * b.d)
RSub(a, b) == RNorm(a.n * b.d - b.n * a.d, a.d * b.d)
RAbs(a) == Rat(Abs(a.n), a.d)
RMax(a, b) == IF RLt(a, b) THEN b ELSE a
RMin(a, b) == IF RLt(b, a) THEN b ELSE a

Zero == Rat(0, 1)
One == Rat(1, 1)
Half == Rat(1, 2)

\* `x as u128` / `x as usize` for a rational x: truncation, saturating at 0.
AsUnsigned(x) == IF x.n <= 0 THEN 0 ELSE x.n \div x.d

Min(a, b) == IF a < b THEN a ELSE b
Max(a, b) == IF a > b THEN a ELSE b

RECURSIVE Pow2(_)
Pow2(k) == IF k = 0 THEN 1 ELSE 2 * Pow2(k - 1)

\* Sum of f[1..k].
RECURSIVE SumTo(_, _)
SumTo(f, k) == IF k = 0 THEN 0 ELSE f[k] + SumTo(f, k - 1)

\* Option<T>
None == [some |-> FALSE, val |-> 0]
Some(x) == [some |-> TRUE, val |-> x]

----------------------------------------------------------------------------
(* restriction.rs *)

Interval(lb, ub) == [lb |-> lb, ub |-> ub]

UNIT == Interval(Zero, One)

\* intersect_inplace taking the hull: max and min exchanged.
intersect_inplace_Hull(self, other) ==
    Interval(RMin(self.lb, other.lb), RMax(self.ub, other.ub))

intersect_inplace(self, other) ==
    Interval(RMax(self.lb, other.lb), RMin(self.ub, other.ub))

\* The four variants of enum Restriction, as records of one shape.
InitialSumUpperBound(sum_depth, bound) ==
    [kind |-> "InitialSumUpperBound", a |-> sum_depth, b |-> 0,
     bound |-> bound, interval |-> UNIT]
InitialSumLowerBound(sum_depth, bound) ==
    [kind |-> "InitialSumLowerBound", a |-> sum_depth, b |-> 0,
     bound |-> bound, interval |-> UNIT]
MidSumUpperBound(start, end, bound) ==
    [kind |-> "MidSumUpperBound", a |-> start, b |-> end,
     bound |-> bound, interval |-> UNIT]
Bounds(index, interval) ==
    [kind |-> "Bounds", a |-> index, b |-> 0,
     bound |-> Zero, interval |-> interval]

----------------------------------------------------------------------------
(* case.rs, with the hypothesis list prover.rs and extrema.rs read. *)

DeltaBound(target, delta_bound) ==
    [kind |-> "DeltaBound", target |-> target, bound |-> delta_bound,
     coefs |-> <<>>]
SumLowerBound(coefs, bound) ==
    [kind |-> "SumLowerBound", target |-> Zero, bound |-> bound,
     coefs |-> coefs]
Contradiction ==
    [kind |-> "Contradiction", target |-> Zero, bound |-> Zero,
     coefs |-> <<>>]

get_lower_bound(c, depth) ==
    IF depth < Len(c.bounds)
    THEN AsUnsigned(Rat(c.bounds[depth + 1].lb.n * c.denominator,
                        c.bounds[depth + 1].lb.d))
    ELSE 0

get_upper_bound(c, depth) ==
    IF depth < Len(c.bounds)
    THEN AsUnsigned(Rat(c.bounds[depth + 1].ub.n * c.denominator,
                        c.bounds[depth + 1].ub.d))
    ELSE c.denominator - 1

----------------------------------------------------------------------------
(* prover.rs: Seq *)

Seq_new(numerator, denominator, max_depth) ==
    [numerators |-> [i \in 1..max_depth |-> numerator],
     denominator |-> denominator]

Seq_set(s, index, numerator) ==
    [s EXCEPT !.numerators[index + 1] = numerator]

\* The cap by the previous numerator lost: the denominator is returned.
get_min_numerator_NoCap(s, index) == s.denominator

get_min_numerator(s, index) == s.numerators[index + 1]

get_min(s, index) == Rat(s.numerators[index + 1], s.denominator)

get_max(s, index) == Rat(s.numerators[index + 1] + 1, s.denominator)

min_variance(s) ==
    LET sq == [i \in 1..Len(s.numerators) |-> s.numerators[i] * s.numerators[i]]
    IN  Rat(SumTo(sq, Len(sq)), s.denominator * s.denominator)

max_variance(s) ==
    LET sq == [i \in 1..Len(s.numerators) |->
                  (s.numerators[i] + 1) * (s.numerators[i] + 1)]
    IN  Rat(SumTo(sq, Len(sq)), s.denominator * s.denominator)

\* numerators.iter().take(end).skip(start).sum()
SumTakeSkip(nums, end, start) ==
    LET n == Min(end, Len(nums))
        f == [i \in 1..n |-> IF i > start THEN nums[i] ELSE 0]
    IN  SumTo(f, n)

\* HintHolds with InitialSumLowerBound tested at every depth.
HintHolds_NoDepthGate(s, hint, depth) ==
    CASE hint.kind = "InitialSumUpperBound" ->
            ~ RGt(Rat(SumTakeSkip(s.numerators, Min(depth, hint.a), 0),
                      s.denominator), hint.bound)
      [] hint.kind = "InitialSumLowerBound" ->
            ~ RLt(Rat(SumTakeSkip(s.numerators, hint.a, 0) + hint.a,
                      s.denominator), hint.bound)
      [] hint.kind = "MidSumUpperBound" ->
            ~ RGt(Rat(SumTakeSkip(s.numerators, Min(depth, hint.b), hint.a),
                      s.denominator), hint.bound)
      [] hint.kind = "Bounds" ->
            ~ (/\ hint.a < depth
               /\ \/ RLt(get_max(s, hint.a), hint.interval.lb)
                  \/ RGt(get_min(s, hint.a), hint.interval.ub))

\* One arm of the match in satisfies_restrictions: TRUE unless the arm sets
\* satisfies_all = false.
HintHolds(s, hint, depth) ==
    CASE hint.kind = "InitialSumUpperBound" ->
            ~ RGt(Rat(SumTakeSkip(s.numerators, Min(depth, hint.a), 0),
                      s.denominator), hint.bound)
      [] hint.kind = "InitialSumLowerBound" ->
            ~ (/\ depth >= hint.a
               /\ RLt(Rat(SumTakeSkip(s.numerators, hint.a, 0) + hint.a,
                          s.denominator), hint.bound))
      [] hint.kind = "MidSumUpperBound" ->
            ~ RGt(Rat(SumTakeSkip(s.numerators, Min(depth, hint.b), hint.a),
                      s.denominator), hint.bound)
      [] hint.kind = "Bounds" ->
            ~ (/\ hint.a < depth
               /\ \/ RLt(get_max(s, hint.a), hint.interval.lb)
                  \/ RGt(get_min(s, hint.a), hint.interval.ub))

satisfies_restrictions(s, hints, depth) ==
    \A k \in 1..Len(hints) : HintHolds(s, hints[k], depth)

----------------------------------------------------------------------------
(* prawitz.rs: Bounder lookups.                                            *)
(*                                                                         *)
(* get_with_var passes a / sqrt(var) and cutoff / sqrt(var) to get.  Such  *)
(* an argument is kept as a surd [r |-> rational, v |-> rational >= 0],    *)
(* standing for r / sqrt(v); with v = 0 and r < 0 it is the f64 -inf the   *)
(* division by 0.0 yields.                                                 *)

Surd(r, v) == [r |-> r, v |-> v]

IsNegInf(x) == x.v.n = 0 /\ x.r.n < 0

\* k >= x * scale + offset, for integers k, scale > 0, offset and a surd x,
\* decided on the squares with the signs treated apart.
IntGeSurd(k, x, scale, offset) ==
    IF IsNegInf(x) THEN TRUE
    ELSE LET L == (k - offset) * x.r.d    \* L * sqrt(v) >= R
             R == x.r.n * scale
             lhs == L * L * x.v.n
             rhs == R * R * x.v.d
         IN  CASE L >= 0 /\ R <= 0 -> TRUE
               [] L >= 0 /\ R > 0  -> lhs >= rhs
               [] L < 0 /\ R >= 0  -> FALSE
               [] L < 0 /\ R < 0   -> lhs <= rhs

\* (x * scale + offset).ceil() as usize, cut at limit: the least k in
\* 0..limit-1 with k >= x * scale + offset, or limit when there is none.
CeilAsUsize(x, scale, offset, limit) ==
    LET ks == {k \in 0..(limit - 1) : IntGeSurd(k, x, scale, offset)}
    IN  IF ks = {} THEN limit
        ELSE CHOOSE k \in ks : \A j \in ks : k <= j

get_internal(bounds, coef_gran, thresh_gran, max_bound, a, cutoff) ==
    LET a_scaled == Min(CeilAsUsize(a, coef_gran, 0, Len(bounds)),
                        Len(bounds) - 1)
        row == bounds[a_scaled + 1]
        cutoff_scaled == CeilAsUsize(cutoff, thresh_gran, max_bound, Len(row))
    IN  IF cutoff_scaled >= Len(row) THEN Zero
        ELSE row[cutoff_scaled + 1]

\* get_bernstein is 1 - exp(..), which has no exact model here: its value
\* for a finite cutoff is the parameter bern, which the caller draws from
\* BernsteinVals.  For cutoff = -inf the f64 expression is inf / inf = NaN,
\* and d.max(NaN) is d.
Bounder_get(b, a, cutoff, bern) ==
    LET d == get_internal(b.bounds, b.coef_gran, b.thresh_gran, b.max_bound,
                          a, cutoff)
    IN  IF ~ IntGeSurd(-3, cutoff, 1, 0)      \* cutoff < -3.0
        THEN IF IsNegInf(cutoff) THEN d ELSE RMax(d, bern)
        ELSE d

get_with_var(b, a, cutoff, min_remaining_var, max_remaining_var, bern) ==
    IF RGt(min_remaining_var, Zero)
    THEN IF RGe(cutoff, Zero)
         THEN Bounder_get(b, Surd(a, min_remaining_var),
                             Surd(cutoff, min_remaining_var), bern)
         ELSE Bounder_get(b, Surd(a, min_remaining_var),
                             Surd(cutoff, max_remaining_var), bern)
    ELSE IF RGe(cutoff, Zero)
         THEN Zero
         ELSE Bounder_get(b, Surd(One, One), Surd(cutoff, max_remaining_var),
                          bern)

----------------------------------------------------------------------------
(* prover.rs: could_be_counterexample *)

\* The inner loop over numerators.iter().take(depth) for one signs_code.
threshold_adjustment_numerator(s, depth, signs_code) ==
    LET n == Min(depth, Len(s.numerators))
        f == [i \in 1..n |->
                IF (signs_code \div Pow2(i - 1)) % 2 = 1
                THEN s.numerators[i] + 1
                ELSE - s.numerators[i]]
    IN  SumTo(f, n)

\* total after the signs_code loop has run over 0..k-1.
RECURSIVE TotalOver(_, _, _, _, _, _)
TotalOver(s, b, c, depth, k, bern) ==
    IF k = 0 THEN Zero
    ELSE LET adj == threshold_adjustment_numerator(s, depth, k - 1)
             new_threshold == RAdd(c.threshold, Rat(adj, s.denominator))
         IN  RAdd(TotalOver(s, b, c, depth, k - 1, bern),
                  get_with_var(b, get_max(s, depth - 1), new_threshold,
                               RSub(One, max_variance(s)),
                               RSub(One, min_variance(s)), bern))

\* x < y + EPSILON.  EPSILON is 1e-10; every x and y the model compares is a
\* rational whose denominator is far below 1e5, so two different values are
\* more than EPSILON apart and the test is x <= y.
LtPlusEPSILON(x, y) == RLe(x, y)

\* could_be_counterexample without the test min_variance() > 1.0.
could_be_counterexample_NoVarianceTest(s, b, c, depth, bern) ==
    LET total == TotalOver(s, b, c, depth, Pow2(depth), bern)
        prob_lower_bound == Rat(total.n, total.d * Pow2(depth))
    IN  LtPlusEPSILON(prob_lower_bound, c.prob_cutoff)

\* could_be_counterexample with the test made on max_variance().
could_be_counterexample_MaxVariance(s, b, c, depth, bern) ==
    IF RGt(max_variance(s), One)
    THEN FALSE
    ELSE LET total == TotalOver(s, b, c, depth, Pow2(depth), bern)
             prob_lower_bound == Rat(total.n, total.d * Pow2(depth))
         IN  LtPlusEPSILON(prob_lower_bound, c.prob_cutoff)

\* could_be_counterexample with the final comparison turned round.
could_be_counterexample_Reversed(s, b, c, depth, bern) ==
    IF RGt(min_variance(s), One)
    THEN FALSE
    ELSE LET total == TotalOver(s, b, c, depth, Pow2(depth), bern)
             prob_lower_bound == Rat(total.n, total.d * Pow2(depth))
         IN  ~ LtPlusEPSILON(prob_lower_bound, c.prob_cutoff)

could_be_counterexample(s, b, c, depth, bern) ==
    IF RGt(min_variance(s), One)
    THEN FALSE
    ELSE LET total == TotalOver(s, b, c, depth, Pow2(depth), bern)
             prob_lower_bound == Rat(total.n, total.d * Pow2(depth))
         IN  LtPlusEPSILON(prob_lower_bound, c.prob_cutoff)

----------------------------------------------------------------------------
(* extrema.rs: Extrema *)

Extrema_new(denominator, max_depth, num_sums) ==
    [min_as |-> Seq_new(denominator, denominator, max_depth),
     max_as |-> Seq_new(0, denominator, max_depth),
     sum_lower_bounds |-> [i \in 1..num_sums |-> None],
     denominator |-> denominator]

\* The inner loop of include_seq over
\* seq.iter_numerators().take(coefs.len()).zip(coefs.iter()).
SeqLowerBound(s, coefs) ==
    LET n == Min(Len(s.numerators), Len(coefs))
        f == [i \in 1..n |->
                IF coefs[i] >= 0
                THEN s.numerators[i] * coefs[i]
                ELSE (s.numerators[i] + 1) * coefs[i]]
    IN  SumTo(f, n)

\* SumSlot without the test depth >= coefs.len().
SumSlot_NoDepthGate(old, s, coefs, depth) ==
    LET lower_bound == SeqLowerBound(s, coefs)
    IN  IF old.some
        THEN IF lower_bound < old.val THEN Some(lower_bound) ELSE old
        ELSE Some(lower_bound)

\* SumSlot that adds the new lower bound to the stored one.
SumSlot_Accumulate(old, s, coefs, depth) ==
    IF depth >= Len(coefs)
    THEN LET lower_bound == SeqLowerBound(s, coefs)
         IN  IF old.some THEN Some(old.val + lower_bound)
             ELSE Some(lower_bound)
    ELSE old

\* One slot of sum_lower_bounds after include_seq.
SumSlot(old, s, coefs, depth) ==
    IF depth >= Len(coefs)
    THEN LET lower_bound == SeqLowerBound(s, coefs)
         IN  IF old.some
             THEN IF lower_bound < old.val THEN Some(lower_bound) ELSE old
             ELSE Some(lower_bound)
    ELSE old

\* include_seq that stores the numerators instead of widening by them.
Extrema_include_seq_Overwrite(self, s, sum_lower_bounds_coefs, depth) ==
    [self EXCEPT
       !.min_as.numerators = s.numerators,
       !.max_as.numerators = s.numerators,
       !.sum_lower_bounds =
           [k \in 1..Len(sum_lower_bounds_coefs) |->
               SumSlot(self.sum_lower_bounds[k], s,
                       sum_lower_bounds_coefs[k], depth)]]

Extrema_include_seq(self, s, sum_lower_bounds_coefs, depth) ==
    [self EXCEPT
       !.min_as.numerators =
           [i \in 1..Len(s.numerators) |->
               Min(self.min_as.numerators[i], s.numerators[i])],
       !.max_as.numerators =
           [i \in 1..Len(s.numerators) |->
               Max(self.max_as.numerators[i], s.numerators[i])],
       !.sum_lower_bounds =
           [k \in 1..Len(sum_lower_bounds_coefs) |->
               SumSlot(self.sum_lower_bounds[k], s,
                       sum_lower_bounds_coefs[k], depth)]]

\* delta for one target of the inner loop of get_max_delta.
TargetDelta(self, i, target) ==
    RMax(RAbs(RSub(target, get_min(self.min_as, i))),
         RAbs(RSub(get_max(self.max_as, i), target)))

\* min_delta after the loop over [0.0, target, 2.0 * target], from 1.0.
MinDelta(self, i, target) ==
    LET d0 == TargetDelta(self, i, Zero)
        d1 == TargetDelta(self, i, target)
        d2 == TargetDelta(self, i, Rat(2 * target.n, target.d))
        m0 == IF RLt(d0, One) THEN d0 ELSE One
        m1 == IF RLt(d1, m0) THEN d1 ELSE m0
    IN  IF RLt(d2, m1) THEN d2 ELSE m1

\* max_delta after the loop has run over i in 0..k-1.
RECURSIVE MaxDeltaUpTo(_, _, _)
MaxDeltaUpTo(self, target, k) ==
    IF k = 0 THEN Zero
    ELSE LET prev == MaxDeltaUpTo(self, target, k - 1)
             min_delta == MinDelta(self, k - 1, target)
         IN  IF RGt(min_delta, prev) THEN min_delta ELSE prev

Extrema_get_max_delta(self, target, depth) == MaxDeltaUpTo(self, target, depth)

Extrema_get_sum_lower_bound(self, index) == self.sum_lower_bounds[index + 1]

Extrema_is_contradiction(self) ==
    RGt(get_min(self.min_as, 0), get_max(self.max_as, 0))

----------------------------------------------------------------------------
(* extrema.rs: Results *)

\* The coefficient lists of the SumLowerBound hypotheses, in order.
SumCoefs(hypotheses) ==
    LET sums == SelectSeq(hypotheses, LAMBDA h : h.kind = "SumLowerBound")
    IN  [k \in 1..Len(sums) |-> sums[k].coefs]

Results_new(c) ==
    LET sum_lower_bound_coefs == SumCoefs(c.hypotheses)
        num_sums == Len(sum_lower_bound_coefs)
    IN  [subcases |->
            [k \in 1..Len(c.subcases) |->
                [restrictions |-> c.subcases[k],
                 extrema |-> Extrema_new(c.denominator, c.max_depth, num_sums)]],
         sum_lower_bound_coefs |-> sum_lower_bound_coefs,
         default_subcase |-> Extrema_new(c.denominator, c.max_depth, num_sums)]

\* Seq::could_satisfy_restrictions is called by Results::include_seq and is
\* not among the sources.  It is the relaxed test of the design text: the
\* intervals of the sequence could contain a point satisfying every
\* restriction, which is what each arm of satisfies_restrictions decides.
could_satisfy_restrictions(s, hints, depth) ==
    \A k \in 1..Len(hints) : HintHolds(s, hints[k], depth)

\* Results_include_seq that folds into the default subcase unconditionally.
Results_include_seq_AlwaysDefault(self, s, depth) ==
    [self EXCEPT
       !.subcases =
           [k \in 1..Len(self.subcases) |->
               IF could_satisfy_restrictions(
                      s, self.subcases[k].restrictions, depth)
               THEN [self.subcases[k] EXCEPT !.extrema =
                        Extrema_include_seq(@, s,
                            self.sum_lower_bound_coefs, depth)]
               ELSE self.subcases[k]],
       !.default_subcase =
           Extrema_include_seq(@, s, self.sum_lower_bound_coefs, depth)]

Results_include_seq(self, s, depth) ==
    LET is_in_any_subcase ==
            \E k \in 1..Len(self.subcases) :
                could_satisfy_restrictions(s, self.subcases[k].restrictions, depth)
    IN  [self EXCEPT
           !.subcases =
               [k \in 1..Len(self.subcases) |->
                   IF could_satisfy_restrictions(
                          s, self.subcases[k].restrictions, depth)
                   THEN [self.subcases[k] EXCEPT !.extrema =
                            Extrema_include_seq(@, s,
                                self.sum_lower_bound_coefs, depth)]
                   ELSE self.subcases[k]],
           !.default_subcase =
               IF ~ is_in_any_subcase
               THEN Extrema_include_seq(@, s, self.sum_lower_bound_coefs, depth)
               ELSE @]

Results_get_max_delta(self, target, depth) ==
    LET f[k \in 0..Len(self.subcases)] ==
            IF k = 0
            THEN Extrema_get_max_delta(self.default_subcase, target, depth)
            ELSE RMax(f[k - 1],
                      Extrema_get_max_delta(self.subcases[k].extrema,
                                            target, depth))
    IN  f[Len(self.subcases)]

\* The index the 'find_coefs loop leaves: the first stored list equal to
\* coefs.  (index.unwrap() aborts when there is none; every list asked for
\* comes from the hypotheses, so there is one.)
FindCoefs(self, coefs) ==
    CHOOSE i \in 0..(Len(self.sum_lower_bound_coefs) - 1) :
        /\ self.sum_lower_bound_coefs[i + 1] = coefs
        /\ \A j \in 0..(i - 1) : self.sum_lower_bound_coefs[j + 1] # coefs

OptMin(x, y) ==
    CASE x.some /\ y.some -> Some(Min(x.val, y.val))
      [] x.some /\ ~ y.some -> x
      [] ~ x.some /\ y.some -> y
      [] OTHER -> None

\* Option<f64>: val is numerator / denominator when some.
Results_get_sum_lower_bound(self, coefs) ==
    LET index == FindCoefs(self, coefs)
        f[k \in 0..Len(self.subcases)] ==
            IF k = 0
            THEN Extrema_get_sum_lower_bound(self.default_subcase, index)
            ELSE OptMin(f[k - 1],
                        Extrema_get_sum_lower_bound(self.subcases[k].extrema,
                                                    index))
        min_sum == f[Len(self.subcases)]
    IN  IF min_sum.some
        THEN [some |-> TRUE,
              val |-> Rat(min_sum.val, self.default_subcase.denominator)]
        ELSE [some |-> FALSE, val |-> Zero]

Results_is_contradiction(self) ==
    /\ Extrema_is_contradiction(self.default_subcase)
    /\ \A k \in 1..Len(self.subcases) :
          Extrema_is_contradiction(self.subcases[k].extrema)

----------------------------------------------------------------------------
(* The Cases and Bounders the search is run on. *)

Denominators == 1..MaxDenom
Depths == 1..MaxDepth
Thresholds == {One}
ProbCutoffs == {Rat(1, 4), Rat(3, 4)}

\* Case.bounds as get_case builds it: one interval per index, each already
\* intersected with UNIT.
BoundsLists ==
    {<<>>, <<UNIT>>, <<Interval(Rat(1, 4), Half), UNIT>>}

\* Case.restrictions as get_case builds it: a Bounds line goes to
\* Case.bounds, so the list holds the three sum restrictions only.
RestrictionLists ==
    {<<>>,
     <<InitialSumUpperBound(2, One), MidSumUpperBound(0, 1, Rat(3, 4))>>,
     <<InitialSumLowerBound(2, One), MidSumUpperBound(1, 2, Half)>>}

SubcaseLists ==
    {<<>>,
     << <<Bounds(0, Interval(Half, One))>> >>,
     << <<Bounds(0, Interval(Half, One))>>,
        <<InitialSumUpperBound(1, Half)>> >>}

\* A coefficient list longer than every max_depth of the model.
LongCoefs == [i \in 1..(MaxDepth + 1) |-> 1]

HypothesisLists ==
    {<<Contradiction, DeltaBound(Half, One), SumLowerBound(LongCoefs, Half)>>,
     <<SumLowerBound(<<1, -1>>, Rat(1, 4)), SumLowerBound(LongCoefs, Zero),
       SumLowerBound(<<1>>, Half), DeltaBound(Half, Half)>>}

\* The Cases with the usual threshold 1: with the low prob_cutoff every
\* combination of subcases with bounds or restrictions, with the high one
\* the Cases without restrictions and subcases; and Cases with a negative
\* threshold and a low prob_cutoff, where the Bounder alone prunes.
Cases ==
    {c \in
        [threshold : Thresholds, prob_cutoff : ProbCutoffs,
         max_depth : Depths, denominator : Denominators, bounds : BoundsLists,
         restrictions : RestrictionLists, subcases : SubcaseLists,
         hypotheses : HypothesisLists]
        \cup
        [threshold : {Rat(-1, 1)}, prob_cutoff : {Rat(1, 8)},
         max_depth : Depths, denominator : Denominators, bounds : {<<>>},
         restrictions : {<<>>}, subcases : SubcaseLists,
         hypotheses : HypothesisLists] :
      /\ c.denominator * c.max_depth <= MaxSize
      /\ c.bounds = <<>> \/ c.restrictions = <<>>
      /\ RGt(c.prob_cutoff, Half) => c.restrictions = <<>> /\ c.subcases = <<>>}

new_manual(bounds, coef_gran, thresh_gran, max_bound) ==
    [bounds |-> bounds, coef_gran |-> coef_gran, thresh_gran |-> thresh_gran,
     max_bound |-> max_bound]

\* Tables of the shape Bounder::new builds (coef_gran rows of 2 * max_bound
\* columns, max_bound = 3 * thresh_gran, at least 0.5 left of max_bound),
\* and two tables a file can hold.
SeedLike(coef_gran, thresh_gran, v) ==
    LET max_bound == 3 * thresh_gran
    IN  new_manual([a \in 1..coef_gran |->
                      [y \in 1..(2 * max_bound) |->
                          IF y - 1 < max_bound THEN Half ELSE v]],
                   coef_gran, thresh_gran, max_bound)

Flat(coef_gran, thresh_gran, v) ==
    LET max_bound == 3 * thresh_gran
    IN  new_manual([a \in 1..coef_gran |-> [y \in 1..(2 * max_bound) |-> v]],
                   coef_gran, thresh_gran, max_bound)

Bounders ==
    {SeedLike(2, 1, Zero), SeedLike(1, 2, Rat(1, 4)), Flat(2, 1, One)}

\* The values get_bernstein may take: it lies strictly between 0 and 1.
BernsteinVals == {Rat(1, 8), Rat(5, 8)}

----------------------------------------------------------------------------
(* prover.rs: simulate and simulate_rec as a state machine.                *)
(* stack[k] is the for-loop that sets index k - 1 of seq: stack[1] is the  *)
(* loop of simulate, stack[k + 1] the loop of simulate_rec(depth = k).     *)
(* With pc = "rec" the call simulate_rec(depth = Len(stack)) is entered;   *)
(* with pc = "loop" the innermost loop is at its head.                     *)

Depth == Len(stack)

Top == stack[Len(stack)]

\* A loop frame whose counter never passes max.
Frame_NeverPast(next, max) ==
    [next |-> IF next > max THEN max ELSE next, max |-> max]

Frame(next, max) == [next |-> next, max |-> max]

\* simulate_rec leaving its loop without seq.set(depth, 0).
Backtrack_Skip(s, depth) == s

\* seq.set(depth, 0) after the for-loop of simulate_rec.
Backtrack(s, depth) == Seq_set(s, depth, 0)

NoneIncluded == <<>>

Included(s, depth) == <<[seq |-> s, depth |-> depth]>>

\* simulate_rec without its outer if.
Explore_Always(bern) == TRUE

\* The condition of simulate_rec's outer if.
Explore(bern) ==
    /\ satisfies_restrictions(seq, case.restrictions, Depth)
    /\ could_be_counterexample(seq, bounder, case, Depth, bern)

Init ==
    /\ case \in Cases
    /\ bounder \in Bounders
    /\ seq = Seq_new(0, case.denominator, case.max_depth)
    /\ results = Results_new(case)
    /\ stack = <<Frame(get_lower_bound(case, 0), get_upper_bound(case, 0))>>
    /\ pc = "loop"
    /\ verdict = <<>>
    /\ lastIncluded = NoneIncluded
    /\ nIncluded = 0
    /\ repeated = FALSE
    /\ file = <<>>
    /\ loaded = <<>>
    /\ stdin = <<>>
    /\ printed = <<>>
    /\ hintList = <<>>
    /\ fixedSeq = <<>>
    /\ fixedDepth = 0
    /\ laterDepth = 0
    /\ entered = <<>>
    /\ sweep = <<>>
    /\ candidate = Zero
    /\ seed = <<>>
    /\ ivSelf = UNIT
    /\ ivOther = UNIT
    /\ ivOld = UNIT

\* simulate: one iteration of `for numerator in min..=max`, up to the call.
SimulateLoop ==
    /\ pc = "loop" /\ Depth = 1 /\ Top.next <= Top.max
    /\ seq' = Seq_set(seq, 0, Top.next)
    /\ stack' = <<Frame(Top.next + 1, Top.max)>>
    /\ pc' = "rec"
    /\ entered' = Append(entered, seq')
    /\ UNCHANGED <<case, bounder, results, verdict, lastIncluded, nIncluded,
                   repeated, file, loaded,
                   stdin, printed,
                   ivSelf, ivOther, ivOld,
                   sweep, candidate, seed,
                   hintList, fixedSeq, fixedDepth, laterDepth>>

\* simulate: the loop is exhausted.
SimulateLoopEnd ==
    /\ pc = "loop" /\ Depth = 1 /\ Top.next > Top.max
    /\ pc' = "verify"
    /\ UNCHANGED <<case, bounder, seq, results, stack, verdict, lastIncluded,
                   nIncluded, repeated, file, loaded,
                   stdin, printed,
                   ivSelf, ivOther, ivOld,
                   sweep, candidate, seed,
                   entered,
                   hintList, fixedSeq, fixedDepth, laterDepth>>

\* simulate_rec, from its entry to its first loop head or its return: the
\* outer if fails and the call returns (a prune); or depth < max_depth and
\* the loop over the next slot is set up; or the call is a leaf and does
\* results.include_seq(seq, depth).  Without a loop the call returns here.
SimulateRec ==
    /\ pc = "rec"
    /\ \E bern \in BernsteinVals :
         LET explore == Explore(bern)
             descend == explore /\ Depth < case.max_depth
             leaf == explore /\ ~ (Depth < case.max_depth)
         IN  /\ stack' =
                   IF descend
                   THEN Append(stack,
                          Frame(get_lower_bound(case, Depth),
                                Min(get_min_numerator(seq, Depth - 1),
                                    get_upper_bound(case, Depth))))
                   ELSE stack
             /\ results' =
                   IF leaf THEN Results_include_seq(results, seq, Depth)
                   ELSE results
             /\ lastIncluded' =
                   IF leaf THEN Included(seq, Depth) ELSE lastIncluded
             /\ nIncluded' = IF leaf THEN nIncluded + 1 ELSE nIncluded
    /\ entered' =
          IF Len(stack') > Len(stack) THEN entered
          ELSE SubSeq(entered, 1, Len(entered) - 1)
    /\ pc' = "loop"
    /\ UNCHANGED <<case, bounder, seq, verdict, repeated, file, loaded,
                   stdin, printed,
                   ivSelf, ivOther, ivOld,
                   sweep, candidate, seed,
                   hintList, fixedSeq, fixedDepth, laterDepth>>

\* simulate_rec: one iteration of its for-loop, up to the recursive call.
RecLoop ==
    /\ pc = "loop" /\ Depth > 1 /\ Top.next <= Top.max
    /\ seq' = Seq_set(seq, Depth - 1, Top.next)
    /\ stack' = [stack EXCEPT ![Depth] = Frame(Top.next + 1, Top.max)]
    /\ pc' = "rec"
    /\ entered' = Append(entered, seq')
    /\ UNCHANGED <<case, bounder, results, verdict, lastIncluded, nIncluded,
                   repeated, file, loaded,
                   stdin, printed,
                   ivSelf, ivOther, ivOld,
                   sweep, candidate, seed,
                   hintList, fixedSeq, fixedDepth, laterDepth>>

\* simulate_rec: the loop is exhausted, seq.set(depth, 0), return.
RecLoopEnd ==
    /\ pc = "loop" /\ Depth > 1 /\ Top.next > Top.max
    /\ seq' = Backtrack(seq, Depth - 1)
    /\ entered' = SubSeq(entered, 1, Len(entered) - 1)
    /\ stack' = SubSeq(stack, 1, Depth - 1)
    /\ pc' = "loop"
    /\ UNCHANGED <<case, bounder, results, verdict, lastIncluded, nIncluded,
                   repeated, file, loaded,
                   stdin, printed,
                   ivSelf, ivOther, ivOld,
                   sweep, candidate, seed,
                   hintList, fixedSeq, fixedDepth, laterDepth>>

\* max_delta + DELTA_ERROR <= delta_bound.  DELTA_ERROR is 1e-6 and the
\* model's values are rationals of small denominator: the test is
\* max_delta < delta_bound.
PlusDELTA_ERRORLe(max_delta, delta_bound) == RLt(max_delta, delta_bound)

\* One arm of the match over case.hypotheses: was the hypothesis proved.
HypothesisProved(r, c, hypothesis) ==
    CASE hypothesis.kind = "DeltaBound" ->
            PlusDELTA_ERRORLe(
                Results_get_max_delta(r, hypothesis.target, c.max_depth),
                hypothesis.bound)
      [] hypothesis.kind = "SumLowerBound" ->
            LET sum_bound == Results_get_sum_lower_bound(r, hypothesis.coefs)
            IN  sum_bound.some /\ RGe(sum_bound.val, hypothesis.bound)
      [] hypothesis.kind = "Contradiction" ->
            Results_is_contradiction(r)

\* simulate: the hypotheses are verified against the results.
Verify ==
    /\ pc = "verify"
    /\ verdict' = [k \in 1..Len(case.hypotheses) |->
                     HypothesisProved(results, case, case.hypotheses[k])]
    /\ pc' = "done"
    /\ UNCHANGED <<case, bounder, seq, results, stack, lastIncluded,
                   nIncluded, repeated, file, loaded,
                   stdin, printed,
                   ivSelf, ivOther, ivOld,
                   sweep, candidate, seed,
                   entered,
                   hintList, fixedSeq, fixedDepth, laterDepth>>

Next ==
    \/ SimulateLoop
    \/ SimulateLoopEnd
    \/ SimulateRec
    \/ RecLoop
    \/ RecLoopEnd
    \/ Verify

Spec == Init /\ [][Next]_vars

----------------------------------------------------------------------------
(* Claims about the search, checked under Spec. *)

Done == pc = "done"

HasHypothesis(kind) ==
    \E k \in 1..Len(case.hypotheses) : case.hypotheses[k].kind = kind

\* C1: after simulate finishes, the Contradiction hypothesis is reported
\* proved (Results.is_contradiction() is true) if and only if no terminal
\* sequence was handed to Results.include_seq during the run, for any
\* denominator D >= 1.
C1_ContradictionIffNoneIncluded ==
    Done => (Results_is_contradiction(results) <=> nIncluded = 0)

\* The Case of C2: max_depth = 1, the single restriction Bounds(0, [0,1])
\* (which get_case stores as bounds[0]), denominator 4, a Contradiction
\* hypothesis, and prob_cutoff above every value a lookup can return.
C2Case ==
    /\ case.max_depth = 1
    /\ case.bounds = <<UNIT>>
    /\ case.restrictions = <<>>
    /\ case.denominator = 4
    /\ HasHypothesis("Contradiction")
    /\ \A a \in 1..Len(bounder.bounds) : \A y \in 1..Len(bounder.bounds[a]) :
          RGt(case.prob_cutoff, bounder.bounds[a][y])
    /\ \A bern \in BernsteinVals : RGt(case.prob_cutoff, bern)
    /\ RGt(case.prob_cutoff, Zero)

\* C2 as stated: in the Case of C2, simulate includes zero terminal
\* sequences and reports the Contradiction hypothesis as proved.
C2_NoneIncludedAndProved ==
    (Done /\ C2Case) =>
        /\ nIncluded = 0
        /\ Results_is_contradiction(results)

\* C2 amended: in the Case of C2, simulate includes every root sequence of
\* the bound range (the five numerators 0..4) as a terminal sequence and
\* reports the Contradiction hypothesis as not proved.
C2_AllIncludedAndNotProved ==
    (Done /\ C2Case) =>
        /\ nIncluded = case.denominator + 1
        /\ ~ Results_is_contradiction(results)
        /\ \A k \in 1..Len(case.hypotheses) :
              case.hypotheses[k].kind = "Contradiction" => ~ verdict[k]

C2_Witness == Done /\ C2Case

\* C3: for every Case, a DeltaBound hypothesis with target 0.5 and delta
\* 1.0 is reported proved after the search:
\* get_max_delta(0.5, max_depth) + DELTA_ERROR <= 1.0.
C3_HalfDeltaOneProved ==
    Done => PlusDELTA_ERRORLe(
                Results_get_max_delta(results, Half, case.max_depth), One)

AllExtrema ==
    {results.default_subcase} \cup
    {results.subcases[k].extrema : k \in 1..Len(results.subcases)}

\* C4: for a SumLowerBound hypothesis whose coefficient list is longer than
\* max_depth, the stored running minimum is None in every Extrema at every
\* moment of the search, Results.get_sum_lower_bound returns None, and the
\* hypothesis is reported not proved.
C4_LongSumStaysNone ==
    \A k \in 1..Len(case.hypotheses) :
        LET h == case.hypotheses[k] IN
        (h.kind = "SumLowerBound" /\ Len(h.coefs) > case.max_depth) =>
            /\ \A e \in AllExtrema :
                  ~ Extrema_get_sum_lower_bound(e, FindCoefs(results, h.coefs)).some
            /\ ~ Results_get_sum_lower_bound(results, h.coefs).some
            /\ Done => ~ verdict[k]

C4_Witness ==
    /\ Done
    /\ nIncluded > 0
    /\ \E k \in 1..Len(case.hypotheses) :
          /\ case.hypotheses[k].kind = "SumLowerBound"
          /\ Len(case.hypotheses[k].coefs) > case.max_depth

\* C7: could_be_counterexample returns false for every sequence whose
\* min_variance() is strictly greater than 1, whatever the Bounder, the
\* Case and the depth.
C7_VarianceAboveOneRejected ==
    (pc = "rec" /\ RGt(min_variance(seq), One)) =>
        \A bern \in BernsteinVals :
            ~ could_be_counterexample(seq, bounder, case, Depth, bern)

C7_Witness == pc = "rec" /\ RGt(min_variance(seq), One)

\* C8: in every state reachable during simulate, every numerator of the
\* working sequence is strictly less than the denominator D, and so is
\* every numerator of every sequence handed to the Results accumulator.
C8_NumeratorsBelowDenominator ==
    /\ \A i \in 1..Len(seq.numerators) : seq.numerators[i] < case.denominator
    /\ \A j \in 1..Len(lastIncluded) :
          \A i \in 1..Len(lastIncluded[j].seq.numerators) :
              lastIncluded[j].seq.numerators[i] < case.denominator

\* What extrema e holds once s is folded into it: every slot of the
\* envelope brackets s, and is no wider than e and s require.
Folded(e, s, depth, after) ==
    after = Extrema_include_seq(e, s, results.sum_lower_bound_coefs, depth)

\* C9: Results.include_seq folds a terminal sequence into the Extrema of
\* every declared subcase whose restriction list it could satisfy, and into
\* the default Extrema if and only if it matches no declared subcase; the
\* Extrema of a non-matching subcase is left unchanged, and so is the
\* default Extrema whenever at least one declared subcase matches.
C9_Routing ==
    [][nIncluded' = nIncluded + 1 =>
         LET s == lastIncluded'[1].seq
             d == lastIncluded'[1].depth
             Matches(k) == could_satisfy_restrictions(s, case.subcases[k], d)
         IN  /\ \A k \in 1..Len(case.subcases) :
                   IF Matches(k)
                   THEN Folded(results.subcases[k].extrema, s, d,
                               results'.subcases[k].extrema)
                   ELSE results'.subcases[k] = results.subcases[k]
             /\ IF \E k \in 1..Len(case.subcases) : Matches(k)
                THEN results'.default_subcase = results.default_subcase
                ELSE Folded(results.default_subcase, s, d,
                            results'.default_subcase)]_vars

\* A sequence was included that matches the first declared subcase and not
\* the second; and the envelopes show it: the first is no longer empty.
C9_Witness ==
    /\ Len(case.subcases) = 2
    /\ lastIncluded # NoneIncluded
    /\ could_satisfy_restrictions(lastIncluded[1].seq, case.subcases[1],
                                  lastIncluded[1].depth)
    /\ ~ could_satisfy_restrictions(lastIncluded[1].seq, case.subcases[2],
                                    lastIncluded[1].depth)
    /\ ~ Extrema_is_contradiction(results.subcases[1].extrema)

----------------------------------------------------------------------------
(* Extrema::include_seq exercised alone: any sequence of numerators 0..D   *)
(* (D itself is a numerator get_upper_bound admits) is folded into one     *)
(* Extrema, the default subcase of a fresh Results, at depth max_depth as  *)
(* Results::include_seq passes it.                                         *)

ExtCases ==
    {c \in
        [threshold : Thresholds, prob_cutoff : {Rat(1, 4)},
         max_depth : Depths, denominator : 1..MaxExtDenom, bounds : {<<>>},
         restrictions : {<<>>}, subcases : {<<>>},
         hypotheses : HypothesisLists] :
      c.denominator * c.max_depth <= MaxExtSize}

\* Every Seq of the Case's length with numerators in 0..D.
SeqsOf(c) ==
    {[numerators |-> n, denominator |-> c.denominator] :
        n \in [1..c.max_depth -> 0..c.denominator]}

InitExtrema ==
    /\ case \in ExtCases
    /\ bounder \in {Flat(1, 1, Zero)}
    /\ seq = Seq_new(0, case.denominator, case.max_depth)
    /\ results = Results_new(case)
    /\ stack = <<>>
    /\ pc = "extrema"
    /\ verdict = <<>>
    /\ lastIncluded = NoneIncluded
    /\ nIncluded = 0
    /\ repeated = FALSE
    /\ file = <<>>
    /\ loaded = <<>>
    /\ stdin = <<>>
    /\ printed = <<>>
    /\ hintList = <<>>
    /\ fixedSeq = <<>>
    /\ fixedDepth = 0
    /\ laterDepth = 0
    /\ entered = <<>>
    /\ sweep = <<>>
    /\ candidate = Zero
    /\ seed = <<>>
    /\ ivSelf = UNIT
    /\ ivOther = UNIT
    /\ ivOld = UNIT

\* extrema.include_seq(seq, &sum_lower_bound_coefs, depth)
ExtremaInclude ==
    /\ pc = "extrema"
    /\ \E s \in SeqsOf(case) :
          /\ results' = [results EXCEPT !.default_subcase =
                Extrema_include_seq(@, s, results.sum_lower_bound_coefs,
                                    case.max_depth)]
          /\ seq' = s
          /\ lastIncluded' = Included(s, case.max_depth)
          /\ repeated' = (lastIncluded = Included(s, case.max_depth))
    /\ UNCHANGED <<case, bounder, stack, pc, verdict, nIncluded, file, loaded,
                   stdin, printed,
                   ivSelf, ivOther, ivOld,
                   sweep, candidate, seed,
                   entered,
                   hintList, fixedSeq, fixedDepth, laterDepth>>

NextExtrema == ExtremaInclude

SpecExtrema == InitExtrema /\ [][NextExtrema]_vars

\* C5: Extrema.include_seq is monotonic: after include_seq the min-envelope
\* numerator at every index is <= its value before the call and the
\* max-envelope numerator is >= its value before, so over any sequence of
\* calls the envelope never shrinks.
C5_IncludeMonotonic ==
    [][\A i \in 1..case.max_depth :
          /\ results'.default_subcase.min_as.numerators[i]
                <= results.default_subcase.min_as.numerators[i]
          /\ results'.default_subcase.max_as.numerators[i]
                >= results.default_subcase.max_as.numerators[i]]_vars

\* Sequences were included and the envelope is wider than one sequence.
C5_Witness ==
    /\ pc = "extrema"
    /\ lastIncluded # NoneIncluded
    /\ \E i \in 1..case.max_depth :
          results.default_subcase.min_as.numerators[i]
              < results.default_subcase.max_as.numerators[i]

\* C6: Extrema.include_seq is idempotent: including the same sequence (same
\* depth, same coefficient lists) a second time immediately after the
\* first leaves min_as, max_as and every sum_lower_bounds slot as they were.
C6_IncludeIdempotent ==
    [][(lastIncluded # NoneIncluded /\ lastIncluded' = lastIncluded)
          => results' = results]_vars

\* The last step included the sequence of the step before it, one whose
\* weighted sums are stored and are not 0.
C6_Witness ==
    /\ pc = "extrema"
    /\ repeated
    /\ \E k \in 1..Len(results.default_subcase.sum_lower_bounds) :
          /\ results.default_subcase.sum_lower_bounds[k].some
          /\ results.default_subcase.sum_lower_bounds[k].val # 0

----------------------------------------------------------------------------
(* file_io.rs: bounder_to_file and bounder_from_file.                      *)
(* The file is the sequence of its characters.  Display for usize and f64  *)
(* and str::parse are modelled digit by digit; the f64 values are          *)
(* rationals with a finite decimal expansion, which Display prints in      *)
(* full and without an exponent.                                           *)

NL == "\n"

Digits == <<"0", "1", "2", "3", "4", "5", "6", "7", "8", "9">>

DigitChar(k) == Digits[k + 1]

DigitVal(c) == CHOOSE k \in 0..9 : Digits[k + 1] = c

\* usize::to_string
RECURSIVE UsizeToString(_)
UsizeToString(n) ==
    IF n < 10 THEN <<DigitChar(n)>>
    ELSE UsizeToString(n \div 10) \o <<DigitChar(n % 10)>>

\* The digits after the point of r / d, 0 < r < d.
RECURSIVE FracDigits(_, _)
FracDigits(r, d) ==
    IF r = 0 THEN <<>>
    ELSE <<DigitChar((r * 10) \div d)>> \o FracDigits((r * 10) % d, d)

\* f64::to_string
F64ToString(x) ==
    LET m == Abs(x.n)
    IN  (IF x.n < 0 THEN <<"-">> ELSE <<>>)
        \o UsizeToString(m \div x.d)
        \o (IF m % x.d = 0 THEN <<>> ELSE <<".">> \o FracDigits(m % x.d, x.d))

\* strs.join(sep)
RECURSIVE Join(_, _)
Join(strs, sep) ==
    IF Len(strs) = 0 THEN <<>>
    ELSE IF Len(strs) = 1 THEN strs[1]
    ELSE strs[1] \o <<sep>> \o Join(Tail(strs), sep)

\* text.split(sep): the fields between the separators, at least one.
RECURSIVE Split(_, _)
Split(text, sep) ==
    IF \E i \in 1..Len(text) : text[i] = sep
    THEN LET i == CHOOSE i \in 1..Len(text) :
                     /\ text[i] = sep
                     /\ \A j \in 1..(i - 1) : text[j] # sep
         IN  <<SubSeq(text, 1, i - 1)>>
             \o Split(SubSeq(text, i + 1, Len(text)), sep)
    ELSE <<text>>

IsWhitespace(c) == c \in {" ", NL}

\* str::trim
RECURSIVE Trim(_)
Trim(text) ==
    IF Len(text) = 0 THEN text
    ELSE IF IsWhitespace(text[1]) THEN Trim(Tail(text))
    ELSE IF IsWhitespace(text[Len(text)])
         THEN Trim(SubSeq(text, 1, Len(text) - 1))
    ELSE text

\* str::lines: split at the line feeds, without a last empty line.
Lines(text) ==
    LET parts == Split(text, NL)
    IN  IF Len(parts[Len(parts)]) = 0
        THEN SubSeq(parts, 1, Len(parts) - 1) ELSE parts

\* str::parse::<usize>() of a string of digits.
RECURSIVE ParseUsize(_)
ParseUsize(text) ==
    IF Len(text) = 0 THEN 0
    ELSE 10 * ParseUsize(SubSeq(text, 1, Len(text) - 1))
         + DigitVal(text[Len(text)])

RECURSIVE Pow10(_)
Pow10(k) == IF k = 0 THEN 1 ELSE 10 * Pow10(k - 1)

\* str::parse::<f64>() of [-]digits[.digits].
ParseF64(text) ==
    LET neg == Len(text) > 0 /\ text[1] = "-"
        body == IF neg THEN Tail(text) ELSE text
        parts == Split(body, ".")
        frac == IF Len(parts) > 1 THEN parts[2] ELSE <<>>
        num == ParseUsize(parts[1]) * Pow10(Len(frac)) + ParseUsize(frac)
    IN  RNorm(IF neg THEN - num ELSE num, Pow10(Len(frac)))

header_line_Swapped(self) ==
    UsizeToString(self.coef_gran) \o <<",">>
    \o UsizeToString(self.max_bound) \o <<",">>
    \o UsizeToString(self.thresh_gran)

\* prawitz.rs: format!("{},{},{}", coef_gran, thresh_gran, max_bound)
header_line(self) ==
    UsizeToString(self.coef_gran) \o <<",">>
    \o UsizeToString(self.thresh_gran) \o <<",">>
    \o UsizeToString(self.max_bound)

\* What bounder_to_file writes after the header, for rows k..
RECURSIVE RowsText(_, _)
RowsText(bounds, k) ==
    IF k > Len(bounds) THEN <<>>
    ELSE Join([y \in 1..Len(bounds[k]) |-> F64ToString(bounds[k][y])], ",")
         \o <<NL>> \o RowsText(bounds, k + 1)

FileText(self) == header_line(self) \o <<NL>> \o RowsText(self.bounds, 1)

\* What bounder_from_file builds from the contents of the file.
FromText(contents) ==
    LET lines == Lines(Trim(contents))
        first_pars == Split(lines[1], ",")
        bounds == [k \in 1..(Len(lines) - 1) |->
                     LET fields == Split(lines[k + 1], ",")
                     IN  [y \in 1..Len(fields) |-> ParseF64(fields[y])]]
    IN  new_manual(bounds, ParseUsize(first_pars[1]),
                   ParseUsize(first_pars[2]), ParseUsize(first_pars[3]))

\* The values of the tables: 0, 0.25, 12.5 and -0.375.
TableVals == {Zero, Rat(1, 4), Rat(25, 2), Rat(-3, 8)}

\* (coef_gran, thresh_gran, max_bound) of the tables.
Shapes == {<<1, 1, 1>>, <<2, 10, 30>>}

PersistBounders ==
    {new_manual(t, sh[1], sh[2], sh[3]) :
        t \in UNION {[1..rc[1] -> [1..rc[2] -> TableVals]] :
                        rc \in {rc \in (1..MaxRows) \X (1..MaxCols) :
                                    rc[1] * rc[2] <= MaxCells}},
        sh \in Shapes}

InitPersist ==
    /\ bounder \in PersistBounders
    /\ case \in {c \in ExtCases : c.denominator = 1 /\ c.max_depth = 1}
    /\ seq = Seq_new(0, case.denominator, case.max_depth)
    /\ results = Results_new(case)
    /\ stack = <<>>
    /\ pc = "generated"
    /\ verdict = <<>>
    /\ lastIncluded = NoneIncluded
    /\ nIncluded = 0
    /\ repeated = FALSE
    /\ file = <<>>
    /\ loaded = <<>>
    /\ stdin = <<>>
    /\ printed = <<>>
    /\ hintList = <<>>
    /\ fixedSeq = <<>>
    /\ fixedDepth = 0
    /\ laterDepth = 0
    /\ entered = <<>>
    /\ sweep = <<>>
    /\ candidate = Zero
    /\ seed = <<>>
    /\ ivSelf = UNIT
    /\ ivOther = UNIT
    /\ ivOld = UNIT

bounder_to_file ==
    /\ pc = "generated"
    /\ file' = FileText(bounder)
    /\ pc' = "written"
    /\ UNCHANGED <<case, bounder, seq, results, stack, verdict, lastIncluded,
                   nIncluded, repeated, loaded,
                   stdin, printed,
                   ivSelf, ivOther, ivOld,
                   sweep, candidate, seed,
                   entered,
                   hintList, fixedSeq, fixedDepth, laterDepth>>

bounder_from_file ==
    /\ pc = "written"
    /\ loaded' = <<FromText(file)>>
    /\ pc' = "loaded"
    /\ UNCHANGED <<case, bounder, seq, results, stack, verdict, lastIncluded,
                   nIncluded, repeated, file,
                   stdin, printed,
                   ivSelf, ivOther, ivOld,
                   sweep, candidate, seed,
                   entered,
                   hintList, fixedSeq, fixedDepth, laterDepth>>

NextPersist == bounder_to_file \/ bounder_from_file

SpecPersist == InitPersist /\ [][NextPersist]_vars

\* The sample grid of (a, cutoff) pairs.
SampleGrid ==
    {<<Surd(a, One), Surd(c, One)>> :
        a \in {Zero, Rat(1, 4), Half, One},
        c \in {Rat(-4, 1), Rat(-1, 1), Rat(-1, 10), Zero, Rat(1, 20), One,
               Rat(7, 2)}}

\* C10: writing a Bounder with bounder_to_file and reading it back with
\* bounder_from_file yields a Bounder with the same coef_gran, thresh_gran,
\* max_bound and table rows, so get(a, cutoff) returns the same value on
\* both for every (a, cutoff) pair.
C10_RoundTrip ==
    pc = "loaded" =>
        /\ loaded[1].coef_gran = bounder.coef_gran
        /\ loaded[1].thresh_gran = bounder.thresh_gran
        /\ loaded[1].max_bound = bounder.max_bound
        /\ loaded[1].bounds = bounder.bounds
        /\ \A g \in SampleGrid : \A bern \in BernsteinVals :
              Bounder_get(loaded[1], g[1], g[2], bern)
                  = Bounder_get(bounder, g[1], g[2], bern)

\* A table of two rows with a fraction, a number of two digits before the
\* point and a negative number was written and read back.
C10_Witness ==
    /\ pc = "loaded"
    /\ Len(bounder.bounds) = 2
    /\ bounder.max_bound = 30
    /\ \E a \in 1..2 : \E y \in 1..Len(bounder.bounds[a]) :
          bounder.bounds[a][y] = Rat(25, 2)
    /\ \E a \in 1..2 : \E y \in 1..Len(bounder.bounds[a]) :
          bounder.bounds[a][y] = Rat(-3, 8)

----------------------------------------------------------------------------
(* main.rs: the command loop, with util.rs: parse_function_like and        *)
(* split_list.  A line is the sequence of its characters.  The case files  *)
(* under cases/ are modelled by the Case each of them parses to; the       *)
(* bounder.csv file is there from the start, as after a "generate".        *)

Uppers == <<"A", "B", "C", "D", "E", "F", "G", "H", "I", "J", "K", "L", "M",
            "N", "O", "P", "Q", "R", "S", "T", "U", "V", "W", "X", "Y", "Z">>

Lowers == <<"a", "b", "c", "d", "e", "f", "g", "h", "i", "j", "k", "l", "m",
            "n", "o", "p", "q", "r", "s", "t", "u", "v", "w", "x", "y", "z">>

\* str::to_lowercase
to_lowercase(t) ==
    [i \in 1..Len(t) |->
        IF \E k \in 1..26 : Uppers[k] = t[i]
        THEN Lowers[CHOOSE k \in 1..26 : Uppers[k] = t[i]]
        ELSE t[i]]

\* str::trim_end_matches(c)
RECURSIVE trim_end_matches(_, _)
trim_end_matches(t, c) ==
    IF Len(t) > 0 /\ t[Len(t)] = c
    THEN trim_end_matches(SubSeq(t, 1, Len(t) - 1), c)
    ELSE t

\* The loop of split_list from byte i (1-based) on, and its last push.
RECURSIVE SplitListFrom(_, _, _, _)
SplitListFrom(t, i, depth, last_index) ==
    IF i > Len(t)
    THEN <<trim_end_matches(Trim(SubSeq(t, last_index, Len(t))), ")")>>
    ELSE IF t[i] = "(" THEN SplitListFrom(t, i + 1, depth + 1, last_index)
    ELSE IF t[i] = ")" THEN SplitListFrom(t, i + 1, depth - 1, last_index)
    ELSE IF t[i] = "," /\ depth = 0
         THEN <<SubSeq(t, last_index, i - 1)>>
              \o SplitListFrom(t, i + 1, depth, i + 1)
    ELSE SplitListFrom(t, i + 1, depth, last_index)

split_list(t) == SplitListFrom(t, 1, 0, 1)

parse_function_like(t) ==
    IF \E i \in 1..Len(t) : t[i] = "("
    THEN LET i == CHOOSE i \in 1..Len(t) :
                     /\ t[i] = "("
                     /\ \A j \in 1..(i - 1) : t[j] # "("
         IN  [func |-> SubSeq(t, 1, i - 1),
              args |-> split_list(SubSeq(t, i + 1, Len(t)))]
    ELSE [func |-> t, args |-> <<>>]

\* func.trim().trim_end_matches(')').to_lowercase()
Command(t) ==
    to_lowercase(trim_end_matches(Trim(parse_function_like(t).func), ")"))

\* Does str::parse::<f64>() return Ok: [-]digits[.digits] with a digit
\* somewhere.  (The lines of the model hold no exponent, inf or nan.)
IsF64(t) ==
    LET neg == Len(t) > 0 /\ t[1] = "-"
        body == IF neg THEN Tail(t) ELSE t
        parts == Split(body, ".")
        IsDigits(u) == \A i \in 1..Len(u) : \E k \in 0..9 : Digits[k + 1] = u[i]
    IN  /\ Len(parts) <= 2
        /\ \A k \in 1..Len(parts) : IsDigits(parts[k])
        /\ \E k \in 1..Len(parts) : Len(parts[k]) > 0

\* The Case of cases/a.txt, the one case file there is.
CaseOnDisk ==
    [threshold |-> One, prob_cutoff |-> Rat(1, 4), max_depth |-> 2,
     denominator |-> 2, bounds |-> <<>>, restrictions |-> <<>>,
     subcases |-> <<>>,
     hypotheses |-> <<Contradiction, DeltaBound(Half, One)>>]

\* file_io.rs get_case: None when cases/<filename>.txt cannot be read.
get_case(filename) ==
    IF filename = <<"a">> THEN Some(CaseOnDisk) ELSE None

\* The lines typed.
InputLines ==
    {<<"r", "u", "n", "(", "a", ")", NL>>,
     <<"r", "u", "n", "(", "b", ")", NL>>,
     <<"r", "u", "n", "(", ")", NL>>,
     <<"r", "u", "n", NL>>,
     <<"d", "(", "1", ",", "0", ".", "5", ")", NL>>,
     <<"D", "(", "0", ".", "5", ",", "-", "4", ")", NL>>,
     <<"d", "(", "x", ",", "1", ")", NL>>,
     <<"d", "(", "1", ")", NL>>,
     <<"d", NL>>,
     <<"g", "e", "n", "e", "r", "a", "t", "e", NL>>,
     <<"f", "o", "o", NL>>,
     <<>>}

Run == <<"r", "u", "n">>
Generate == <<"g", "e", "n", "e", "r", "a", "t", "e">>

Panicked == <<"panicked">>
UnknownCase == <<"Unknown case!">>
FailedToParse == <<"Failed to parse arguments! Expected format: D(a,x)">>
UnknownCommand == <<"Unknown command! Valid commands: run, d, generate.">>

\* main::prep: the Bounder is read from the file the first time.
prep(b) == IF b = <<>> THEN <<FromText(file)>> ELSE b

InitMain ==
    /\ bounder \in Bounders
    /\ file = FileText(bounder)
    /\ loaded = <<>>
    /\ case = CaseOnDisk
    /\ seq = Seq_new(0, case.denominator, case.max_depth)
    /\ results = Results_new(case)
    /\ stack = <<>>
    /\ pc = "prompt"
    /\ verdict = <<>>
    /\ lastIncluded = NoneIncluded
    /\ nIncluded = 0
    /\ repeated = FALSE
    /\ stdin = <<>>
    /\ printed = <<>>
    /\ hintList = <<>>
    /\ fixedSeq = <<>>
    /\ fixedDepth = 0
    /\ laterDepth = 0
    /\ entered = <<>>
    /\ sweep = <<>>
    /\ candidate = Zero
    /\ seed = <<>>
    /\ ivSelf = UNIT
    /\ ivOther = UNIT
    /\ ivOld = UNIT

\* "run": args[0] is indexed, get_case, prep, and simulate is entered.
MainRun ==
    /\ pc = "prompt"
    /\ \E t \in InputLines :
         LET args == parse_function_like(t).args
             found == IF Len(args) = 0 THEN None ELSE get_case(args[1])
             runs == Len(args) > 0 /\ found.some
         IN  /\ Command(t) = Run
             /\ stdin' = t
             /\ pc' = IF Len(args) = 0 THEN "panicked"
                      ELSE IF found.some THEN "loop" ELSE "prompt"
             /\ printed' = IF Len(args) = 0 THEN Panicked
                           ELSE IF found.some THEN <<>> ELSE UnknownCase
             /\ loaded' = IF runs THEN prep(loaded) ELSE loaded
             /\ bounder' = IF runs THEN prep(loaded)[1] ELSE bounder
             /\ case' = IF runs THEN found.val ELSE case
             /\ seq' = IF runs
                       THEN Seq_new(0, found.val.denominator,
                                    found.val.max_depth)
                       ELSE seq
             /\ results' = IF runs THEN Results_new(found.val) ELSE results
             /\ stack' = IF runs
                         THEN <<Frame(get_lower_bound(found.val, 0),
                                      get_upper_bound(found.val, 0))>>
                         ELSE stack
             /\ verdict' = IF runs THEN <<>> ELSE verdict
             /\ lastIncluded' = IF runs THEN NoneIncluded ELSE lastIncluded
             /\ nIncluded' = IF runs THEN 0 ELSE nIncluded
    /\ UNCHANGED <<repeated, file,
                   ivSelf, ivOther, ivOld,
                   sweep, candidate, seed,
                   entered,
                   hintList, fixedSeq, fixedDepth, laterDepth>>

\* "run": simulate has returned.
MainSimulated ==
    /\ pc = "done"
    /\ pc' = "prompt"
    /\ printed' = <<"Simulation complete!">>
    /\ UNCHANGED <<case, bounder, seq, results, stack, verdict, lastIncluded,
                   nIncluded, repeated, file, loaded, stdin,
                   ivSelf, ivOther, ivOld,
                   sweep, candidate, seed,
                   entered,
                   hintList, fixedSeq, fixedDepth, laterDepth>>

\* "d": prep, then args[0] and args[1] are indexed and parsed.
MainD ==
    /\ pc = "prompt"
    /\ \E t \in InputLines : \E bern \in BernsteinVals :
         LET args == parse_function_like(t).args
             ok == Len(args) >= 2 /\ IsF64(args[1]) /\ IsF64(args[2])
         IN  /\ Command(t) = <<"d">>
             /\ stdin' = t
             /\ loaded' = prep(loaded)
             /\ pc' = IF Len(args) < 2 THEN "panicked" ELSE "prompt"
             /\ printed' =
                   IF Len(args) < 2 THEN Panicked
                   ELSE IF ok
                        THEN <<"D", Bounder_get(prep(loaded)[1],
                                       Surd(ParseF64(args[1]), One),
                                       Surd(ParseF64(args[2]), One), bern)>>
                        ELSE FailedToParse
    /\ UNCHANGED <<case, bounder, seq, results, stack, verdict, lastIncluded,
                   nIncluded, repeated, file,
                   ivSelf, ivOther, ivOld,
                   sweep, candidate, seed,
                   entered,
                   hintList, fixedSeq, fixedDepth, laterDepth>>

\* "generate": Bounder::new(), bounder_to_file, bounder = Some(new_bounder).
\* The new table is one of Bounders.
MainGenerate ==
    /\ pc = "prompt"
    /\ \E t \in InputLines : \E b \in Bounders :
         /\ Command(t) = Generate
         /\ stdin' = t
         /\ file' = FileText(b)
         /\ loaded' = <<b>>
    /\ printed' = <<"Precomputation complete.">>
    /\ UNCHANGED <<case, bounder, seq, results, stack, pc, verdict,
                   lastIncluded, nIncluded, repeated,
                   ivSelf, ivOther, ivOld,
                   sweep, candidate, seed,
                   entered,
                   hintList, fixedSeq, fixedDepth, laterDepth>>

\* Any other command.
MainUnknown ==
    /\ pc = "prompt"
    /\ \E t \in InputLines :
         /\ Command(t) \notin {Run, <<"d">>, Generate}
         /\ stdin' = t
    /\ printed' = UnknownCommand
    /\ UNCHANGED <<case, bounder, seq, results, stack, pc, verdict,
                   lastIncluded, nIncluded, repeated, file, loaded,
                   ivSelf, ivOther, ivOld,
                   sweep, candidate, seed,
                   entered,
                   hintList, fixedSeq, fixedDepth, laterDepth>>

NextMain ==
    \/ MainRun
    \/ MainSimulated
    \/ MainD
    \/ MainGenerate
    \/ MainUnknown
    \/ SimulateLoop
    \/ SimulateLoopEnd
    \/ SimulateRec
    \/ RecLoop
    \/ RecLoopEnd
    \/ Verify

SpecMain == InitMain /\ [][NextMain]_vars

\* The lines that are user-visible failures: an unknown command, a run of
\* an unknown case, a run or d with missing or unparseable arguments.
UserFailure(t) ==
    LET args == parse_function_like(t).args
    IN  CASE Command(t) = Run ->
                Len(args) = 0 \/ ~ get_case(args[1]).some
          [] Command(t) = <<"d">> ->
                Len(args) < 2 \/ ~ IsF64(args[1]) \/ ~ IsF64(args[2])
          [] Command(t) = Generate -> FALSE
          [] OTHER -> TRUE

\* C11: after a line that is a user-visible failure the loop is back at the
\* prompt with a message printed; such a line never ends the process.
C11_FailuresKeepLooping ==
    (printed # <<>> /\ UserFailure(stdin)) =>
        /\ pc = "prompt"
        /\ printed \in {UnknownCase, FailedToParse, UnknownCommand}

----------------------------------------------------------------------------
(* restriction.rs: Interval::intersect_inplace on the intervals a case     *)
(* file can hold: Interval { lb, ub } of any two parsed floats.            *)

IntervalEnds ==
    {Rat(-1, 2), Zero, Rat(1, 4), Half, One, Rat(3, 2)}

Intervals == {Interval(lb, ub) : lb \in IntervalEnds, ub \in IntervalEnds}

InitInterval ==
    /\ ivSelf \in Intervals
    /\ ivOther \in Intervals
    /\ ivOld = ivSelf
    /\ pc = "interval"
    /\ case = CaseOnDisk
    /\ bounder \in {SeedLike(1, 1, Zero)}
    /\ seq = Seq_new(0, case.denominator, case.max_depth)
    /\ results = Results_new(case)
    /\ stack = <<>>
    /\ verdict = <<>>
    /\ lastIncluded = NoneIncluded
    /\ nIncluded = 0
    /\ repeated = FALSE
    /\ file = <<>>
    /\ loaded = <<>>
    /\ stdin = <<>>
    /\ printed = <<>>
    /\ hintList = <<>>
    /\ fixedSeq = <<>>
    /\ fixedDepth = 0
    /\ laterDepth = 0
    /\ entered = <<>>
    /\ sweep = <<>>
    /\ candidate = Zero
    /\ seed = <<>>

\* self.intersect_inplace(&other)
IntersectInplace ==
    /\ pc = "interval"
    /\ ivOld' = ivSelf
    /\ ivSelf' = intersect_inplace(ivSelf, ivOther)
    /\ pc' = "intersected"
    /\ UNCHANGED <<case, bounder, seq, results, stack, verdict, lastIncluded,
                   nIncluded, repeated, file, loaded, stdin, printed, ivOther,
                   sweep, candidate, seed,
                   entered,
                   hintList, fixedSeq, fixedDepth, laterDepth>>

NextInterval == IntersectInplace

SpecInterval == InitInterval /\ [][NextInterval]_vars

\* C12 as stated: intersecting any Interval A with UNIT leaves A unchanged.
C12_IntersectUnitIsIdentity ==
    (pc = "intersected" /\ ivOther = UNIT) => ivSelf = ivOld

\* C12: intersecting an Interval A with UNIT clamps it to [0, 1]: the
\* result is [max(lb, 0), min(ub, 1)], which is A exactly when 0 <= lb and
\* ub <= 1.
C12_IntersectUnitClamps ==
    (pc = "intersected" /\ ivOther = UNIT) =>
        /\ ivSelf.lb = (IF RLt(ivOld.lb, Zero) THEN Zero ELSE ivOld.lb)
        /\ ivSelf.ub = (IF RGt(ivOld.ub, One) THEN One ELSE ivOld.ub)
        /\ (ivSelf = ivOld) <=> (RGe(ivOld.lb, Zero) /\ RLe(ivOld.ub, One))

\* A proper sub-interval of UNIT was intersected with UNIT.
C12_Witness ==
    /\ pc = "intersected"
    /\ ivOther = UNIT
    /\ ivOld = Interval(Rat(1, 4), Half)

----------------------------------------------------------------------------
(* Termination of simulate, checked under Spec by a rank: a natural number *)
(* that every step of the search makes smaller.                            *)

\* The iterations the loop of frame f still has to run, plus one.
FrameRank(f) == Max(0, f.max + 1 - f.next) + 1

\* More than any FrameRank: a loop runs over numerators in 0..D.
RankBase == case.denominator + 4

\* The digit of slot k in 1..max_depth+1: the rank of its loop frame; for
\* the call simulate_rec(depth = k - 1) that has been entered and has not
\* yet set up its loop, more than any frame; and 0 below the recursion.
RankDigit(k) ==
    IF k <= Depth THEN FrameRank(stack[k])
    ELSE IF k = Depth + 1 /\ pc = "rec" THEN RankBase - 1
    ELSE 0

RECURSIVE RankUpTo(_)
RankUpTo(k) ==
    IF k = 0 THEN 0 ELSE RankUpTo(k - 1) * RankBase + RankDigit(k)

Rank ==
    3 * RankUpTo(case.max_depth + 1)
    + (CASE pc = "done" -> 0 [] pc = "verify" -> 1 [] OTHER -> 2)

\* There is a step to take: the guards of the steps of simulate and
\* simulate_rec cover the state.
HasNextStep ==
    \/ pc = "loop" /\ Depth >= 1
    \/ pc = "rec" /\ Depth >= 1
    \/ pc = "verify"

----------------------------------------------------------------------------
(* prover.rs: the sequences simulate and simulate_rec explore *)

\* numerators[i] <= numerators[i - 1] for 1 <= i < n.
NonIncreasing(s, n) ==
    \A i \in 1..(n - 1) : s.numerators[i + 1] <= s.numerators[i]

\* numerators[i] is in [get_lower_bound(i), get_upper_bound(i)] for i < n.
WithinBounds(s, n) ==
    \A i \in 0..(n - 1) :
        /\ get_lower_bound(case, i) <= s.numerators[i + 1]
        /\ s.numerators[i + 1] <= get_upper_bound(case, i)

\* C16: at every entry of simulate_rec(depth) the buffer is non-increasing
\* over all of 1 <= i < max_depth and its depth chosen numerators lie within
\* [get_lower_bound(i), get_upper_bound(i)]; a sequence handed to
\* Results.include_seq is non-increasing and within these bounds at every
\* index.
C16_NonIncreasingWithinBounds ==
    /\ pc = "rec" =>
          /\ NonIncreasing(seq, case.max_depth)
          /\ WithinBounds(seq, Depth)
    /\ lastIncluded # NoneIncluded =>
          /\ NonIncreasing(lastIncluded[1].seq, case.max_depth)
          /\ WithinBounds(lastIncluded[1].seq, case.max_depth)

\* A sequence of depth 2 was included whose second numerator is positive and
\* strictly below its first, under a Case that bounds the first slot.
C16_Witness ==
    /\ lastIncluded # NoneIncluded
    /\ case.max_depth = 2
    /\ case.bounds # <<>>
    /\ lastIncluded[1].seq.numerators[2] >= 1
    /\ lastIncluded[1].seq.numerators[2] < lastIncluded[1].seq.numerators[1]

\* prob_lower_bound < case.prob_cutoff + EPSILON, the comparison of
\* could_be_counterexample with the Bounder's values.
BelowCutoff(s, b, c, depth, bern) ==
    LET total == TotalOver(s, b, c, depth, Pow2(depth), bern)
    IN  LtPlusEPSILON(Rat(total.n, total.d * Pow2(depth)), c.prob_cutoff)

\* C17 as stated: could_be_counterexample returns false whenever
\* max_variance() (the sum of (numerator + 1)^2 over D^2) exceeds 1.
C17_MaxVarianceAboveOneRejected ==
    (pc = "rec" /\ RGt(max_variance(seq), One)) =>
        \A b \in Bounders : \A bern \in BernsteinVals :
            ~ could_be_counterexample(seq, b, case, Depth, bern)

\* C17: the variance test of could_be_counterexample is on min_variance():
\* a sequence whose max_variance() exceeds 1 is rejected without the Bounder
\* when its min_variance() exceeds 1 too, and is otherwise decided by the
\* comparison of the Bounder's lower bound with prob_cutoff.
C17_MaxVarianceAboveOneNotDecisive ==
    (pc = "rec" /\ RGt(max_variance(seq), One)) =>
        \A b \in Bounders : \A bern \in BernsteinVals :
            could_be_counterexample(seq, b, case, Depth, bern) =
                (/\ RLe(min_variance(seq), One)
                 /\ BelowCutoff(seq, b, case, Depth, bern))

\* simulate_rec was entered with a sequence whose max_variance() exceeds 1
\* and whose min_variance() does not, and could_be_counterexample kept it.
C17_Witness ==
    /\ pc = "rec"
    /\ RGt(max_variance(seq), One)
    /\ RLe(min_variance(seq), One)
    /\ \E bern \in BernsteinVals :
          could_be_counterexample(seq, bounder, case, Depth, bern)

\* A step in which a call of simulate_rec returns.
Returns == Len(entered') < Len(entered)

\* C18: at every entry of simulate_rec(depth) the numerators at indices
\* >= depth are 0, and when the call returns the buffer is the one it was
\* entered with: the numerators at indices < depth unchanged and those at
\* indices >= depth 0 again, whether it pruned, descended or was a leaf.
C18_BacktrackingRestores ==
    [][/\ pc' = "rec" =>
             /\ Len(entered') = Depth'
             /\ \A i \in (Depth' + 1)..case.max_depth : seq'.numerators[i] = 0
       /\ Returns =>
             /\ \A i \in 1..Len(entered) :
                   seq'.numerators[i] = entered[Len(entered)].numerators[i]
             /\ \A i \in (Len(entered) + 1)..case.max_depth :
                   seq'.numerators[i] = 0
             /\ seq' = entered[Len(entered)]]_vars

\* A call of simulate_rec(1) that descended and tried a positive numerator
\* in slot 1 has returned, and slot 1 is 0 again.
C18_Witness ==
    /\ pc = "loop"
    /\ Depth = 1
    /\ entered = <<>>
    /\ case.max_depth = 2
    /\ nIncluded > 0
    /\ lastIncluded[1].seq.numerators[2] > 0
    /\ seq.numerators[2] = 0
    /\ seq.numerators[1] = lastIncluded[1].seq.numerators[1]

\* The buffer as simulate_rec(d) saw it on the way to s: the first d
\* numerators of s and 0 in the remaining slots.
PrefixOf(s, d) ==
    [s EXCEPT !.numerators =
        [i \in 1..Len(s.numerators) |-> IF i <= d THEN s.numerators[i] ELSE 0]]

\* Both tests of simulate_rec's outer if hold for s at depth d.
Passed(s, d) ==
    /\ satisfies_restrictions(s, case.restrictions, d)
    /\ \E bern \in BernsteinVals :
          could_be_counterexample(s, bounder, case, d, bern)

\* C19: a sequence is handed to Results.include_seq only at depth =
\* max_depth and only if each of its prefixes of length d in 1..max_depth
\* (the remaining slots 0) passed satisfies_restrictions and
\* could_be_counterexample at depth d; a call of simulate_rec whose tests
\* fail returns at once, with the accumulator and the buffer as they were.
C19_IncludedOnlyAfterAllTests ==
    [][/\ lastIncluded' # NoneIncluded =>
             /\ lastIncluded'[1].depth = case.max_depth
             /\ \A d \in 1..case.max_depth :
                   Passed(PrefixOf(lastIncluded'[1].seq, d), d)
       /\ (pc = "rec" /\ ~ Passed(seq, Depth)) =>
             /\ results' = results
             /\ nIncluded' = nIncluded
             /\ lastIncluded' = lastIncluded
             /\ seq' = seq
             /\ stack' = stack
             /\ Returns
       /\ (results' # results \/ nIncluded' # nIncluded) =>
             /\ pc = "rec"
             /\ Depth = case.max_depth
             /\ Passed(seq, Depth)
             /\ lastIncluded' = Included(seq, Depth)]_vars

\* Under a Case of depth 2 with restrictions a sequence has been included,
\* and simulate_rec is entered with a sequence that fails a restriction.
C19_Witness ==
    /\ pc = "rec"
    /\ case.max_depth = 2
    /\ case.restrictions # <<>>
    /\ nIncluded > 0
    /\ lastIncluded[1].depth = 2
    /\ ~ satisfies_restrictions(seq, case.restrictions, Depth)

\* No sequence was ever included into e: its envelope is the one
\* Extrema::new builds (an include_seq moves min_as or max_as in slot 0).
NeverIncluded(e) ==
    /\ e.min_as = Seq_new(case.denominator, case.denominator, case.max_depth)
    /\ e.max_as = Seq_new(0, case.denominator, case.max_depth)

\* The largest get_max_delta over the Extrema that received a sequence, 0.0
\* when there is none.
RECURSIVE MaxDeltaOver(_, _)
MaxDeltaOver(es, target) ==
    IF es = {} THEN Zero
    ELSE LET e == CHOOSE x \in es : TRUE
         IN  RMax(Extrema_get_max_delta(e, target, case.max_depth),
                  MaxDeltaOver(es \ {e}, target))

\* C21: after the search, an Extrema into which no sequence was included
\* contributes 0 to Results.get_max_delta: for every DeltaBound hypothesis
\* its own get_max_delta is 0, Results.get_max_delta is the maximum over the
\* Extrema that received a sequence, and the verdict is the one these give.
C21_EmptyEnvelopeContributesZero ==
    Done =>
       \A k \in 1..Len(case.hypotheses) :
          LET h == case.hypotheses[k]
              received == {e \in AllExtrema : ~ NeverIncluded(e)}
          IN  h.kind = "DeltaBound" =>
                /\ \A e \in AllExtrema \ received :
                      Extrema_get_max_delta(e, h.target, case.max_depth) = Zero
                /\ Results_get_max_delta(results, h.target, case.max_depth)
                      = MaxDeltaOver(received, h.target)
                /\ verdict[k] =
                      PlusDELTA_ERRORLe(MaxDeltaOver(received, h.target),
                                        h.bound)

----------------------------------------------------------------------------
(* prover.rs: satisfies_restrictions on a prefix and on its extensions.    *)
(* A Seq with its first fixedDepth numerators fixed is tested at depth     *)
(* fixedDepth; then the slots from fixedDepth on are assigned and the Seq  *)
(* is tested at a greater depth.                                           *)

\* Every Restriction of each of the four kinds over MaxHintLen slots, with
\* a few bounds and intervals.
Hints ==
    LET HintBounds == {Zero, Half, One, Rat(3, 2)}
        HintIntervals == {Interval(Zero, Half), Interval(Half, One),
                          Interval(One, Rat(3, 2))}
        Ranges == {q \in (0..MaxHintLen) \X (0..MaxHintLen) : q[1] < q[2]}
    IN  {InitialSumUpperBound(k, b) : k \in 0..MaxHintLen, b \in HintBounds}
        \cup {InitialSumLowerBound(k, b) :
                 k \in 0..MaxHintLen, b \in HintBounds}
        \cup {MidSumUpperBound(p[1], p[2], b) :
                 p \in Ranges, b \in HintBounds}
        \cup {Bounds(k, iv) :
                 k \in 0..(MaxHintLen - 1), iv \in HintIntervals}

\* The lists of one hint, and two lists that mix the kinds.
HintLists ==
    {<<h>> : h \in Hints}
    \cup {<<>>,
          <<InitialSumUpperBound(3, Rat(3, 2)), InitialSumLowerBound(2, One),
            Bounds(1, Interval(Half, One))>>,
          <<MidSumUpperBound(1, 3, One), Bounds(0, Interval(Zero, Half)),
            InitialSumLowerBound(1, Half)>>}

\* The Seqs of MaxHintLen slots whose slots from d on are 0, as simulate_rec
\* has them at depth d.
FixedSeqs(d) ==
    {[numerators |-> n, denominator |-> 2] :
        n \in {f \in [1..MaxHintLen -> 0..MaxNumerator] :
                  \A i \in (d + 1)..MaxHintLen : f[i] = 0}}

\* s with its slots from d on assigned anew.
Extensions(s, d) ==
    {[s EXCEPT !.numerators = n] :
        n \in {f \in [1..MaxHintLen -> 0..MaxNumerator] :
                  \A i \in 1..d : f[i] = s.numerators[i]}}

InitRestrict ==
    /\ hintList \in HintLists
    /\ fixedDepth \in 1..(MaxHintLen - 1)
    /\ fixedSeq \in FixedSeqs(fixedDepth)
    /\ laterDepth = fixedDepth
    /\ seq = fixedSeq
    /\ pc = "fixed"
    /\ case = CaseOnDisk
    /\ bounder = SeedLike(1, 1, Zero)
    /\ results = Results_new(case)
    /\ stack = <<>>
    /\ verdict = <<>>
    /\ lastIncluded = NoneIncluded
    /\ nIncluded = 0
    /\ repeated = FALSE
    /\ file = <<>>
    /\ loaded = <<>>
    /\ stdin = <<>>
    /\ printed = <<>>
    /\ entered = <<>>
    /\ sweep = <<>>
    /\ candidate = Zero
    /\ seed = <<>>
    /\ ivSelf = UNIT
    /\ ivOther = UNIT
    /\ ivOld = UNIT

\* The search goes on below the prefix: the slots from fixedDepth on are
\* set and the Seq is tested at a greater depth.
Extend ==
    /\ pc = "fixed"
    /\ \E d \in (fixedDepth + 1)..MaxHintLen :
       \E s \in Extensions(fixedSeq, fixedDepth) :
          /\ laterDepth' = d
          /\ seq' = s
    /\ pc' = "extended"
    /\ UNCHANGED <<case, bounder, results, stack, verdict, lastIncluded,
                   nIncluded, repeated, file, loaded, stdin, printed,
                   ivSelf, ivOther, ivOld, sweep, candidate, seed, entered,
                   hintList, fixedSeq, fixedDepth>>

NextRestrict == Extend

SpecRestrict == InitRestrict /\ [][NextRestrict]_vars

\* C20: if satisfies_restrictions(hints, d) is false for a sequence whose
\* first d numerators are fixed, it is false at every depth d' > d for every
\* assignment of the numerators at indices >= d, for hints of every kind: a
\* sequence that satisfies the restrictions at the greater depth has not
\* been discarded at depth d.
C20_PruningIsMonotone ==
    (pc = "extended"
     /\ ~ satisfies_restrictions(fixedSeq, hintList, fixedDepth)) =>
        ~ satisfies_restrictions(seq, hintList, laterDepth)

\* A prefix that fails an InitialSumLowerBound was extended with positive
\* numerators and tested at a greater depth.
C20_Witness ==
    /\ pc = "extended"
    /\ laterDepth > fixedDepth
    /\ ~ satisfies_restrictions(fixedSeq, hintList, fixedDepth)
    /\ Len(hintList) = 1
    /\ hintList[1].kind = "InitialSumLowerBound"
    /\ \A i \in (fixedDepth + 1)..MaxHintLen : seq.numerators[i] > 0

----------------------------------------------------------------------------
(* prawitz.rs: the refinement pass of Bounder::new ("Precomputation #2").  *)
(* The table of precomputation #1 is the seed; its values come from        *)
(* prawitz_bound_raw, a numeric integral, and are drawn here from a few    *)
(* row shapes that keep its one guarantee: at least 0.5 left of max_bound. *)
(* N is 2000 and D_ITERATIONS 1000 in the source.                          *)

\* (a + b) / 2.0
RHalfSum(a, b) == LET t == RAdd(a, b) IN RNorm(t.n, 2 * t.d)

\* bound before `if a > 0`: the trivial 1/4 when t <= min_a_1, and the
\* elimination of the largest coefficient when a + 1 < coef_gran.
EliminationBound(bounds, coef_gran, thresh_gran, max_bound, y, a) ==
    LET t == RNorm(y - max_bound + 1, thresh_gran)
        min_a_1 == RNorm(a, coef_gran)
        max_a_1 == RNorm(a + 1, coef_gran)
        \* min_sigma is the square root of this
        var == RNorm(coef_gran * coef_gran - (a + 1) * (a + 1),
                     coef_gran * coef_gran)
        bound == IF RLe(t, min_a_1) THEN Rat(1, 4) ELSE Zero
    IN  IF a + 1 < coef_gran
        THEN LET sta1 == get_internal(bounds, coef_gran, thresh_gran,
                             max_bound, Surd(max_a_1, var),
                             Surd(RSub(t, min_a_1), var))
                 sta2 == get_internal(bounds, coef_gran, thresh_gran,
                             max_bound, Surd(max_a_1, var),
                             Surd(RAdd(t, max_a_1), var))
             IN  RMax(bound, RHalfSum(sta1, sta2))
        ELSE bound

\* bound taking the larger of the two cases.
CellBound_Max(bounds, coef_gran, thresh_gran, max_bound, y, a) ==
    LET bound == EliminationBound(bounds, coef_gran, thresh_gran, max_bound,
                                  y, a)
    IN  IF a > 0 THEN RMax(bound, bounds[a][y + 1]) ELSE bound

\* bound when it is compared with bounds[a][y] (bounds[a - 1] of the
\* source is bounds[a] here).
CellBound(bounds, coef_gran, thresh_gran, max_bound, y, a) ==
    LET bound == EliminationBound(bounds, coef_gran, thresh_gran, max_bound,
                                  y, a)
    IN  IF a > 0 THEN RMin(bound, bounds[a][y + 1]) ELSE bound

\* The cell written whatever its current value.
RefinedCell_Overwrite(old, bound) == bound

\* if bound > bounds[a][y] { bounds[a][y] = bound }
RefinedCell(old, bound) == IF RGt(bound, old) THEN bound ELSE old

\* A row of the seed: left of max_bound the value l, then r up to column
\* cut, then 0.
SeedRow(max_bound, l, r, cut) ==
    [y \in 1..(2 * max_bound) |->
        IF y - 1 < max_bound THEN l ELSE IF y - 1 < cut THEN r ELSE Zero]

SeedRows(max_bound) ==
    {SeedRow(max_bound, Half, Rat(1, 4), max_bound),
     SeedRow(max_bound, Rat(3, 4), Half, max_bound + 2),
     SeedRow(max_bound, Half, Rat(1, 4), 2 * max_bound)}

\* The tables after precomputation #1, for coef_gran = thresh_gran = n.
SeedTables(n) ==
    {new_manual(rows, n, n, 3 * n) : rows \in [1..n -> SeedRows(3 * n)]}

InitNew ==
    /\ bounder \in UNION {SeedTables(n) : n \in 1..MaxGran}
    /\ seed = bounder.bounds
    /\ sweep = <<0, 0, 0>>
    /\ candidate = Zero
    /\ pc = "refine"
    /\ case = CaseOnDisk
    /\ seq = Seq_new(0, case.denominator, case.max_depth)
    /\ results = Results_new(case)
    /\ stack = <<>>
    /\ verdict = <<>>
    /\ lastIncluded = NoneIncluded
    /\ nIncluded = 0
    /\ repeated = FALSE
    /\ file = <<>>
    /\ loaded = <<>>
    /\ stdin = <<>>
    /\ printed = <<>>
    /\ hintList = <<>>
    /\ fixedSeq = <<>>
    /\ fixedDepth = 0
    /\ laterDepth = 0
    /\ entered = <<>>
    /\ ivSelf = UNIT
    /\ ivOther = UNIT
    /\ ivOld = UNIT

\* The (i, y, a) after (i, y, a): a runs innermost, then y, then i.
NextCell(b, i, y, a) ==
    IF a + 1 < b.coef_gran THEN <<i, y, a + 1>>
    ELSE IF y + 1 < 2 * b.max_bound THEN <<i, y + 1, 0>>
    ELSE <<i + 1, 0, 0>>

\* One pass of the body of `for a in 0..coef_gran`.
RefineCell ==
    /\ pc = "refine"
    /\ sweep[1] < MaxSweeps
    /\ LET y == sweep[2]
           a == sweep[3]
           bound == CellBound(bounder.bounds, bounder.coef_gran,
                              bounder.thresh_gran, bounder.max_bound, y, a)
       IN  /\ candidate' = bound
           /\ bounder' = [bounder EXCEPT !.bounds[a + 1][y + 1] =
                              RefinedCell(@, bound)]
           /\ sweep' = NextCell(bounder, sweep[1], y, a)
    /\ UNCHANGED <<case, seq, results, stack, pc, verdict, lastIncluded,
                   nIncluded, repeated, file, loaded, stdin, printed,
                   ivSelf, ivOther, ivOld, seed,
                   entered,
                   hintList, fixedSeq, fixedDepth, laterDepth>>

\* The sweeps are done: Bounder { bounds, coef_gran, thresh_gran, max_bound }.
RefineEnd ==
    /\ pc = "refine"
    /\ sweep[1] >= MaxSweeps
    /\ pc' = "refined"
    /\ UNCHANGED <<case, bounder, seq, results, stack, verdict, lastIncluded,
                   nIncluded, repeated, file, loaded, stdin, printed,
                   ivSelf, ivOther, ivOld, sweep, candidate, seed,
                   entered,
                   hintList, fixedSeq, fixedDepth, laterDepth>>

NextNew == RefineCell \/ RefineEnd

SpecNew == InitNew /\ [][NextNew]_vars

\* The two bounds of the cell the step refines, from the table before it.
StepElimination ==
    EliminationBound(bounder.bounds, bounder.coef_gran, bounder.thresh_gran,
                     bounder.max_bound, sweep[2], sweep[3])

StepMonotonicity == bounder.bounds[sweep[3]][sweep[2] + 1]

IsRefineStep == pc = "refine" /\ sweep' # sweep

\* C14 as stated: for a > 0 the candidate is the maximum of the elimination
\* bound and the monotonicity bound bounds[a-1][y].
C14_CandidateIsMaximum ==
    [][(IsRefineStep /\ sweep[3] > 0) =>
          /\ candidate' \in {StepElimination, StepMonotonicity}
          /\ RGe(candidate', StepElimination)
          /\ RGe(candidate', StepMonotonicity)]_vars

\* C14: for a > 0 the candidate is the minimum of the elimination bound and
\* the monotonicity bound bounds[a-1][y]; it is then compared with the
\* cell's current value.
C14_CandidateIsMinimum ==
    [][(IsRefineStep /\ sweep[3] > 0) =>
          /\ candidate' \in {StepElimination, StepMonotonicity}
          /\ RLe(candidate', StepElimination)
          /\ RLe(candidate', StepMonotonicity)]_vars

\* A cell with a > 0 was refined whose elimination bound is above its
\* monotonicity bound, and the candidate is the lower one.
C14_Witness ==
    /\ pc = "refine"
    /\ bounder.coef_gran = 3
    /\ \E i \in 0..MaxSweeps : \E y \in 0..(2 * bounder.max_bound - 1) :
          /\ sweep = NextCell(bounder, i, y, 1)
          /\ RLt(candidate,
                 EliminationBound(bounder.bounds, bounder.coef_gran,
                                  bounder.thresh_gran, bounder.max_bound,
                                  y, 1))

\* C15: no step of the refinement decreases a cell, and the table is
\* cellwise >= the seed table throughout and at the end.
C15_CellsNeverDecrease ==
    [][/\ \A a \in 1..Len(bounder.bounds) :
             \A y \in 1..Len(bounder.bounds[a]) :
                RGe(bounder'.bounds[a][y], bounder.bounds[a][y])
       /\ \A a \in 1..Len(seed) : \A y \in 1..Len(seed[a]) :
             RGe(bounder'.bounds[a][y], seed[a][y])]_vars

\* The refinement has ended and raised a cell above its seed value.
C15_Witness ==
    /\ pc = "refined"
    /\ \E a \in 1..Len(seed) : \E y \in 1..Len(seed[a]) :
          RGt(bounder.bounds[a][y], seed[a][y])

====
